---- MODULE Spec2Model ----
(***************************************************************************)
(* Model of the pump.fun listing bot: the poll / dedup / enrich / filter / *)
(* publish loop of main.py with its collaborators solana_rpc.py and        *)
(* telegram_bot.py.                                                        *)
(*                                                                         *)
(* Python strings are sequences of one-character strings, so that the URL  *)
(* regex, str.replace and the `in` test are computed, not assumed.         *)
(***************************************************************************)
EXTENDS Integers, Sequences, FiniteSets, TLC

(***************************************************************************)
(* Bounds of the model                                                     *)
(***************************************************************************)
\* longest feed (number of token objects) one fetch returns
MaxFeedLen == 2
\* longest array a durable file found at startup holds
MaxStoredLen == 2

(***************************************************************************)
(* Program constants                                                       *)
(***************************************************************************)
\* main.py:30, default of CONCURRENT_METADATA_FETCHES
CONCURRENT_METADATA_FETCHES == 5
\* solana_rpc.py:31, lamports per SOL
LAMPORTS_PER_SOL == 1000000000
\* main.py:80, a domain label is one char plus at most 61 + 1 more
LABEL_MID_MAX == 61
\* main.py:80, [A-Z]{2,6}
TLD_ALPHA_MAX == 6
\* main.py:185, creator_tx_count > 20
HISTORY_THRESHOLD == 20

(***************************************************************************)
(* Characters and strings                                                  *)
(***************************************************************************)
LowerOf ==
    ("A" :> "a") @@ ("B" :> "b") @@ ("C" :> "c") @@ ("D" :> "d") @@ ("E" :> "e") @@
    ("F" :> "f") @@ ("G" :> "g") @@ ("H" :> "h") @@ ("I" :> "i") @@ ("J" :> "j") @@
    ("K" :> "k") @@ ("L" :> "l") @@ ("M" :> "m") @@ ("N" :> "n") @@ ("O" :> "o") @@
    ("P" :> "p") @@ ("Q" :> "q") @@ ("R" :> "r") @@ ("S" :> "s") @@ ("T" :> "t") @@
    ("U" :> "u") @@ ("V" :> "v") @@ ("W" :> "w") @@ ("X" :> "x") @@ ("Y" :> "y") @@
    ("Z" :> "z")

Letters ==
    {"a","b","c","d","e","f","g","h","i","j","k","l","m","n","o","p","q","r","s",
     "t","u","v","w","x","y","z","A","B","C","D","E","F","G","H","I","J","K","L",
     "M","N","O","P","Q","R","S","T","U","V","W","X","Y","Z"}

Digits == {"0","1","2","3","4","5","6","7","8","9"}

HexLetters == {"a","b","c","d","e","f","A","B","C","D","E","F"}

Whitespace == {" ", "\t", "\n", "\r", "\f"}

\* re.IGNORECASE: compare literals on the lower-cased text
Lower(c) == IF c \in DOMAIN LowerOf THEN LowerOf[c] ELSE c

LowerStr(s) == [i \in 1..Len(s) |-> Lower(s[i])]

AllIn(s, chars) == \A i \in 1..Len(s) : s[i] \in chars

\* Python: sub in s
Contains(s, sub) ==
    \E i \in 1..(Len(s) - Len(sub) + 1) : SubSeq(s, i, i + Len(sub) - 1) = sub

\* Python: s.replace(old, new), every non-overlapping occurrence, left to right
RECURSIVE Replace(_, _, _)
Replace(s, old, new) ==
    IF Len(s) < Len(old) THEN s
    ELSE IF SubSeq(s, 1, Len(old)) = old
         THEN new \o Replace(SubSeq(s, Len(old) + 1, Len(s)), old, new)
         ELSE <<s[1]>> \o Replace(SubSeq(s, 2, Len(s)), old, new)

(***************************************************************************)
(* URL_REGEX and is_valid_url, main.py:78-89.  Each piece of the pattern   *)
(* is a predicate "the pattern matches exactly this text"; the whole       *)
(* pattern matches when the text splits into scheme, host, port and tail.  *)
(***************************************************************************)
\* ^(?:http|ftp)s?://
UrlScheme(s) ==
    LowerStr(s) \in { <<"h","t","t","p",":","/","/">>,
                      <<"h","t","t","p","s",":","/","/">>,
                      <<"f","t","p",":","/","/">>,
                      <<"f","t","p","s",":","/","/">> }

\* [A-Z0-9](?:[A-Z0-9-]{0,61}[A-Z0-9])?
UrlLabel(l) ==
    /\ Len(l) >= 1
    /\ Len(l) <= LABEL_MID_MAX + 2
    /\ l[1] \in Letters \cup Digits
    /\ l[Len(l)] \in Letters \cup Digits
    /\ AllIn(l, Letters \cup Digits \cup {"-"})

\* [A-Z]{2,6} | [A-Z0-9-]{2,}
UrlTldCore(t) ==
    \/ Len(t) >= 2 /\ Len(t) <= TLD_ALPHA_MAX /\ AllIn(t, Letters)
    \/ Len(t) >= 2 /\ AllIn(t, Letters \cup Digits \cup {"-"})

\* (?:[A-Z]{2,6}\.?|[A-Z0-9-]{2,}\.?)
UrlTld(t) ==
    \/ UrlTldCore(t)
    \/ Len(t) >= 1 /\ t[Len(t)] = "." /\ UrlTldCore(SubSeq(t, 1, Len(t) - 1))

\* what follows the first label: more labels, then the top-level domain
RECURSIVE UrlDomainRest(_)
UrlDomainRest(h) ==
    \/ UrlTld(h)
    \/ \E k \in 1..Len(h) :
          /\ h[k] = "."
          /\ UrlLabel(SubSeq(h, 1, k - 1))
          /\ UrlDomainRest(SubSeq(h, k + 1, Len(h)))

\* (?:label\.)+ tld
UrlDomain(h) ==
    \E k \in 1..Len(h) :
       /\ h[k] = "."
       /\ UrlLabel(SubSeq(h, 1, k - 1))
       /\ UrlDomainRest(SubSeq(h, k + 1, Len(h)))

\* \d{1,3}
UrlOctet(o) == Len(o) >= 1 /\ Len(o) <= 3 /\ AllIn(o, Digits)

\* \d{1,3}\.\d{1,3}\.\d{1,3}\.\d{1,3}
UrlIPv4(h) ==
    \E a \in 1..Len(h) : \E b \in (a + 1)..Len(h) : \E c \in (b + 1)..Len(h) :
       /\ h[a] = "." /\ h[b] = "." /\ h[c] = "."
       /\ UrlOctet(SubSeq(h, 1, a - 1))
       /\ UrlOctet(SubSeq(h, a + 1, b - 1))
       /\ UrlOctet(SubSeq(h, b + 1, c - 1))
       /\ UrlOctet(SubSeq(h, c + 1, Len(h)))

\* \[?[A-F0-9]*:[A-F0-9:]+\]?
UrlIPv6(h) ==
    \E open \in {0, 1} : \E close \in {0, 1} : \E k \in 1..Len(h) :
       /\ open = 1 => (Len(h) >= 1 /\ h[1] = "[")
       /\ close = 1 => (Len(h) >= 1 /\ h[Len(h)] = "]")
       /\ k > open
       /\ k < Len(h) - close
       /\ h[k] = ":"
       /\ AllIn(SubSeq(h, open + 1, k - 1), HexLetters \cup Digits)
       /\ AllIn(SubSeq(h, k + 1, Len(h) - close), HexLetters \cup Digits \cup {":"})

UrlHost(h) ==
    \/ UrlDomain(h)
    \/ LowerStr(h) = <<"l","o","c","a","l","h","o","s","t">>
    \/ UrlIPv4(h)
    \/ UrlIPv6(h)

\* (?::\d+)?
UrlPort(p) ==
    \/ p = <<>>
    \/ Len(p) >= 2 /\ p[1] = ":" /\ AllIn(SubSeq(p, 2, Len(p)), Digits)

\* (?:/?|[/?]\S+)
UrlTailCore(t) ==
    \/ t = <<>>
    \/ t = <<"/">>
    \/ Len(t) >= 2 /\ t[1] \in {"/", "?"}
                   /\ \A i \in 2..Len(t) : t[i] \notin Whitespace

\* ...$ : the end of the text, or just before a final newline
UrlTail(t) ==
    \/ UrlTailCore(t)
    \/ Len(t) >= 1 /\ t[Len(t)] = "\n" /\ UrlTailCore(SubSeq(t, 1, Len(t) - 1))

\* bool(URL_REGEX.match(url)) for a str url
is_valid_url(url) ==
    \E a \in 0..Len(url) :
       /\ UrlScheme(SubSeq(url, 1, a))
       /\ \E b \in a..Len(url) :
             /\ UrlHost(SubSeq(url, a + 1, b))
             /\ \E c \in b..Len(url) :
                   /\ UrlPort(SubSeq(url, b + 1, c))
                   /\ UrlTail(SubSeq(url, c + 1, Len(url)))


(***************************************************************************)
(* Python values that reach the driver from JSON bodies: None, a str, or   *)
(* something that is neither (a number).                                   *)
(***************************************************************************)
PyNone == [t |-> "none", v |-> <<>>]

PyStr(s) == [t |-> "str", v |-> s]

PyInt == [t |-> "int", v |-> <<>>]

\* bool(x): None and "" are falsy, a non-empty str and a non-zero number truthy
Truthy(x) == \/ x.t = "str" /\ x.v # <<>>
             \/ x.t = "int"

\* a or b
PyOr(a, b) == IF Truthy(a) THEN a ELSE b

\* the absent value of an optional number (float | None, int | None)
NoneNum == -1

NotFound == <<"N","o","t"," ","f","o","u","n","d">>

XCom == <<"x",".","c","o","m">>

TwitterCom == <<"t","w","i","t","t","e","r",".","c","o","m">>

(***************************************************************************)
(* Inputs: what the outside world can answer                               *)
(***************************************************************************)
TgGood == <<"h","t","t","p","s",":","/","/","t",".","m","e","/","x">>

TwXCom == <<"h","t","t","p","s",":","/","/","x",".","c","o","m","/","y">>

TwGood == <<"h","t","t","p","s",":","/","/","t","w","i","t","t","e","r",".","c","o","m","/","y">>

TwNoScheme == <<"t","w","i","t","t","e","r",".","c","o","m","/","y">>

TgSpace == <<"h","t","t","p","s",":","/","/","t",".","m","e","/","a"," ","b">>

\* a token object of the feed; "" stands for a missing, null or empty field
Tok(m, c) == [mint |-> m, creator |-> c]

TokenSet == { Tok("M1", "C1"), Tok("M2", "C1"), Tok("M1", ""), Tok("", "C1") }

Mints == {"M1", "M2"}

SeqsUpTo(S, n) == UNION { [1..k -> S] : k \in 0..n }

Feeds == SeqsUpTo(TokenSet, MaxFeedLen)

\* outcomes of an HTTP exchange, as the callers' except clauses tell them apart
HttpFailures == {"timeout", "request_error", "http_status", "bad_json"}

FetchOutcomes == {"ok", "not_array"} \cup HttpFailures

Meta(tgu, tg, twu, tw) ==
    [telegram_url |-> tgu, telegram |-> tg, twitter_url |-> twu, twitter |-> tw]

EmptyMeta == Meta(PyNone, PyNone, PyNone, PyNone)

\* first entries of the "result" list of the metadata API
ApiMetas ==
    { Meta(PyStr(TgGood), PyNone, PyStr(TwXCom), PyNone),
      Meta(PyNone, PyStr(TgGood), PyNone, PyStr(TwGood)),
      Meta(PyStr(<<>>), PyStr(TgGood), PyStr(TwGood), PyNone),
      Meta(PyStr(TgGood), PyNone, PyNone, PyNone),
      Meta(PyNone, PyNone, PyStr(TwGood), PyNone),
      Meta(PyStr(TgGood), PyNone, PyStr(TwNoScheme), PyNone),
      Meta(PyStr(TgSpace), PyNone, PyStr(TwGood), PyNone),
      Meta(PyStr(NotFound), PyNone, PyStr(TwGood), PyNone),
      Meta(PyStr(TgGood), PyNone, PyInt, PyNone),
      EmptyMeta }

EnrichResponses ==
    [kind : {"ok"}, meta : ApiMetas]
    \cup [kind : HttpFailures \cup {"no_result", "not_dict"}, meta : {EmptyMeta}]

\* "bad_shape": a body whose "result" is no object, or whose value is no number
BalanceOutcomes == {"ok", "no_value", "bad_shape"} \cup HttpFailures

LamportValues == {500000000, 1000000000}

TxCountOutcomes == {"ok", "no_list"} \cup HttpFailures

SignatureCounts == {21}

\* "not_object": a body that is JSON but has no .get
SendOutcomes == {"ok_true", "ok_false", "not_object"} \cup HttpFailures

SaveOutcomes == {"ok", "open_error", "write_error"}

RequiredVars ==
    {"TELEGRAM_BOT_TOKEN", "TELEGRAM_CHANNEL_ID", "SOLANA_RPC_URL",
     "COMMERCIAL_METADATA_API_URL", "COMMERCIAL_API_KEY"}

(***************************************************************************)
(* State                                                                   *)
(***************************************************************************)
VARIABLES
    pc,                  \* where main_loop stands
    config,              \* the required environment variables that are set
    processed_tokens,    \* main.py:259, the in-memory Dedup Set
    file,                \* data/processed_tokens.json
    metadata_semaphore,  \* main.py:31/262, free permits (NoneNum before startup)
    all_tokens,          \* main.py:273, the feed of the current cycle
    newly_found_tokens,  \* main.py:276
    idx,                 \* position of the for loop of main.py:287
    enriched_metadata,   \* main.py:296
    telegram_link,       \* main.py:298
    twitter_link,        \* main.py:299
    creator_balance_sol, \* main.py:314, in lamports, NoneNum when None
    creator_tx_count,    \* main.py:315, NoneNum when None
    formatted_message,   \* main.py:326
    \* history variables, not read by the program
    resolved,            \* identifiers published or rejected by the filter, ever
    failed,              \* identifiers whose publish returned False this cycle
    prev_failed,         \* the same for the previous cycle, right after the fetch
    prev_all_posted,     \* no publish of the previous cycle returned False
    had_cycle,           \* this process has completed a cycle
    feed_unchanged,      \* this cycle's feed equals the previous cycle's
    pubs_in_cycle,       \* successful publishes of this cycle
    handled,             \* identifier of the candidate handled last
    decision,            \* what the filter said about it
    calls,               \* the calls made for it
    enrich_outcome,      \* how the enrichment exchange just ended
    crash_site,          \* where an exception left main_loop
    did_io,              \* some outbound call or file write has happened
    fetch_outcome,       \* how the feed exchange of this cycle ended
    saves_in_cycle,      \* calls of save_processed_tokens in this cycle
    in_flight,           \* enrichment requests sent and not yet answered
    probe,               \* the component call made last, when one is made alone
    dropped_ever         \* identifiers whose enrichment failed, in any process

vars ==
    <<pc, config, processed_tokens, file, metadata_semaphore, all_tokens,
      newly_found_tokens, idx, enriched_metadata, telegram_link, twitter_link,
      creator_balance_sol, creator_tx_count, formatted_message, resolved, failed,
      prev_failed, prev_all_posted, had_cycle, feed_unchanged, pubs_in_cycle,
      handled, decision, calls, enrich_outcome, crash_site, did_io,
      fetch_outcome, saves_in_cycle, in_flight, probe, dropped_ever>>

(***************************************************************************)
(* Dedup store, main.py:40-57                                              *)
(***************************************************************************)
NoFile == [state |-> "absent", items |-> <<>>]

\* a file whose text json.load cannot decode (empty or cut short)
CorruptFile == [state |-> "corrupt", items |-> <<>>]

\* a JSON array of strings
ListFile(items) == [state |-> "list", items |-> items]

\* text that json.load decodes to something else than an array of strings:
\* kind "null" (null, a number, true: not iterable), "nested" (an array that
\* holds arrays or objects: unhashable members), "object" (items are its
\* keys), "string" (items are its characters); kind "not_utf8" is a file the
\* text decoder refuses
ForeignFile(kind, items) == [state |-> kind, items |-> items]

Range(q) == { q[i] : i \in 1..Len(q) }

\* list(tokens_set): the members once each, in some order
ListsOf(S) == { q \in [1..Cardinality(S) -> S] : Range(q) = S }

\* load_processed_tokens(): set(json.load(f)); set() when the file is absent
\* (main.py:42, 49) or json raises JSONDecodeError (main.py:46-48).  No other
\* exception is caught: set() of a value that is not iterable or of unhashable
\* members raises TypeError, undecodable bytes raise UnicodeDecodeError.  An
\* object yields its keys, a string its characters.
load_processed_tokens(f) ==
    CASE f.state \in {"absent", "corrupt"} -> [raised |-> FALSE, value |-> {}]
      [] f.state \in {"null", "nested", "not_utf8"} -> [raised |-> TRUE, value |-> {}]
      [] OTHER -> [raised |-> FALSE, value |-> Range(f.items)]

\* mutant: the first element of the list is not written
SaveDropsFirst(f, items, outcome) ==
    IF outcome = "ok" THEN ListFile(SubSeq(items, 2, Len(items))) ELSE f

\* save_processed_tokens(): the file after open(..., 'w') and json.dump;
\* IOError is caught: raised by open the file is untouched, raised after the
\* truncation the text is cut short
save_processed_tokens(f, items, outcome) ==
    CASE outcome = "ok" -> ListFile(items)
      [] outcome = "open_error" -> f
      [] OTHER -> CorruptFile

(***************************************************************************)
(* Feed fetcher, main.py:59-75                                             *)
(***************************************************************************)
\* raised: the exception leaves the function (HTTPStatusError of
\* raise_for_status is neither TimeoutException nor RequestError);
\* is_list: the decoded body is a list of objects
fetch_new_pump_fun_tokens(outcome, body) ==
    CASE outcome = "ok" -> [raised |-> FALSE, is_list |-> TRUE, tokens |-> body]
      [] outcome = "not_array" -> [raised |-> FALSE, is_list |-> FALSE, tokens |-> <<>>]
      [] outcome = "http_status" -> [raised |-> TRUE, is_list |-> TRUE, tokens |-> <<>>]
      [] OTHER -> [raised |-> FALSE, is_list |-> TRUE, tokens |-> <<>>]

\* main.py:274, token.get("mint") and token.get("creator")
IsValidToken(tok) == tok.mint # "" /\ tok.creator # ""

\* main.py:274
ValidTokens(tokens) == SelectSeq(tokens, IsValidToken)

\* mutant: the Dedup Set is not consulted
NewlyFoundIgnoresSet(tokens, processed) == ValidTokens(tokens)

\* main.py:276-280
NewlyFound(tokens, processed) ==
    SelectSeq(ValidTokens(tokens), LAMBDA tok : tok.mint \notin processed)

MintsOf(tokens) == { tokens[i].mint : i \in 1..Len(tokens) }

(***************************************************************************)
(* Metadata enricher, main.py:91-167                                       *)
(***************************************************************************)
NoMetadata == [present |-> FALSE, telegram_url |-> PyNone, twitter_url |-> PyNone]

\* the value returned: None, or the dict of main.py:148-152
get_token_metadata_enriched(cfg, resp) ==
    IF "COMMERCIAL_METADATA_API_URL" \notin cfg THEN NoMetadata
    ELSE IF resp.kind # "ok" THEN NoMetadata
    ELSE [present |-> TRUE,
          telegram_url |-> PyOr(resp.meta.telegram_url, resp.meta.telegram),
          twitter_url |-> PyOr(resp.meta.twitter_url, resp.meta.twitter)]

\* mutant: the call is made without taking a permit
AcquireTakesNone(permits) == permits

\* permits after __aenter__ of `async with metadata_semaphore`, main.py:98
Acquire(permits) == permits - 1

\* mutant: the permit is given back only when the API answered
ReleaseOnAnswerOnly(permits, resp) == IF resp.kind = "ok" THEN permits + 1 ELSE permits

\* permits after __aexit__, whatever way the block was left
Release(permits, resp) == permits + 1

(***************************************************************************)
(* Driver: links and filter, main.py:298-312                               *)
(***************************************************************************)
\* main.py:302; the returned dict has no "telegram" key
TelegramLinkOf(em) ==
    IF em.present THEN PyOr(PyOr(em.telegram_url, PyNone), PyStr(NotFound))
    ELSE PyStr(NotFound)

\* main.py:303, before the rewrite
RawTwitterLinkOf(em) ==
    IF em.present THEN PyOr(PyOr(em.twitter_url, PyNone), PyStr(NotFound))
    ELSE PyStr(NotFound)

\* main.py:304-305
NormalizeTwitter(link) ==
    IF Contains(link, XCom) THEN Replace(link, XCom, TwitterCom) ELSE link

\* main.py:304 and 308-309 raise TypeError on a link that is no str
LinksRaise(em) ==
    em.present /\ (RawTwitterLinkOf(em).t # "str" \/ TelegramLinkOf(em).t # "str")

\* main.py:303-305 for a str link
TwitterLinkOf(em) ==
    IF em.present THEN PyStr(NormalizeTwitter(RawTwitterLinkOf(em).v))
    ELSE PyStr(NotFound)

\* mutant: the X link is not looked at
AcceptsTelegramOnly(tg, tw) == tg # NotFound /\ is_valid_url(tg)

\* main.py:308-309, the condition whose negation skips the token
Accepts(tg, tw) ==
    /\ tg # NotFound
    /\ is_valid_url(tg)
    /\ tw # NotFound
    /\ is_valid_url(tw)

(***************************************************************************)
(* Chain info, solana_rpc.py:9-96.  `except json.JSONDecodeError` names a  *)
(* module solana_rpc.py never imports: an exception that is neither a      *)
(* TimeoutException nor a RequestError reaches that clause, evaluating it  *)
(* raises NameError, and the NameError leaves the function.                *)
(***************************************************************************)
get_sol_balance(outcome, lamports) ==
    CASE outcome = "ok" -> [raised |-> FALSE, value |-> lamports]
      [] outcome \in {"no_value", "timeout", "request_error"} ->
            [raised |-> FALSE, value |-> NoneNum]
      [] OTHER -> [raised |-> TRUE, value |-> NoneNum]

get_transaction_count(outcome, n) ==
    CASE outcome = "ok" -> [raised |-> FALSE, value |-> n]
      [] outcome = "no_list" -> [raised |-> FALSE, value |-> 0]
      [] outcome \in {"timeout", "request_error"} ->
            [raised |-> FALSE, value |-> NoneNum]
      [] OTHER -> [raised |-> TRUE, value |-> NoneNum]

(***************************************************************************)
(* Message formatter, main.py:169-233                                      *)
(***************************************************************************)
\* main.py:181
DevWalletEmpty(balance) == balance # NoneNum /\ balance < LAMPORTS_PER_SOL

\* main.py:185
WalletHasHistory(count) == count # NoneNum /\ count > HISTORY_THRESHOLD

NoMessage == [raised |-> FALSE, built |-> FALSE, dev_wallet_empty_tag |-> FALSE,
              wallet_history_tag |-> FALSE]

\* the f-string of main.py:214-232 formats the balance with :.5f, which
\* raises TypeError when the balance is None
format_token_message(tok, balance, count, tg, tw) ==
    IF balance = NoneNum
    THEN [NoMessage EXCEPT !.raised = TRUE]
    ELSE [raised |-> FALSE, built |-> TRUE,
          dev_wallet_empty_tag |-> DevWalletEmpty(balance),
          wallet_history_tag |-> WalletHasHistory(count)]

(***************************************************************************)
(* Publisher, telegram_bot.py:9-43                                         *)
(***************************************************************************)
\* mutant: any answer with a success status counts as sent
SendTrustsStatus(cfg, outcome) ==
    [raised |-> FALSE, value |-> outcome \in {"ok_true", "ok_false", "not_object"}]

\* every exception is caught (telegram_bot.py:37-42) and the function falls
\* through to `return False`
send_telegram_message(cfg, outcome) ==
    IF "TELEGRAM_BOT_TOKEN" \notin cfg \/ "TELEGRAM_CHANNEL_ID" \notin cfg
    THEN [raised |-> FALSE, value |-> FALSE]
    ELSE CASE outcome = "ok_true" -> [raised |-> FALSE, value |-> TRUE]
           [] outcome = "ok_false" -> [raised |-> FALSE, value |-> FALSE]
           [] outcome \in {"timeout", "request_error"} ->
                 [raised |-> FALSE, value |-> FALSE]
           [] OTHER -> [raised |-> FALSE, value |-> FALSE]

(***************************************************************************)
(* The components called alone, each on every input of a bounded set       *)
(***************************************************************************)
\* fn: the function called; outcome: what the outside world answered;
\* raised: an exception left the function; truth, num, ids: the value returned
Probe(fn, outcome, raised, truth, num, ids) ==
    [fn |-> fn, outcome |-> outcome, raised |-> raised, truth |-> truth,
     num |-> num, ids |-> ids]

NoProbe == Probe("none", "none", FALSE, FALSE, NoneNum, {})

\* contents data/processed_tokens.json can have when the process starts
StoredFiles ==
    {NoFile, CorruptFile}
    \cup { ListFile(q) : q \in SeqsUpTo(Mints, MaxStoredLen) }
    \cup { ForeignFile(k, <<>>) : k \in {"null", "nested", "not_utf8", "object"} }
    \cup { ForeignFile("object", <<"M1">>), ForeignFile("string", <<"M", "1">>) }

\* balances handed to the formatter, in lamports
FormatBalances ==
    {NoneNum, 0, LAMPORTS_PER_SOL - 1, LAMPORTS_PER_SOL, 2 * LAMPORTS_PER_SOL}

\* activity counts handed to the formatter
FormatCounts == {NoneNum, 0, HISTORY_THRESHOLD, HISTORY_THRESHOLD + 1}

(***************************************************************************)
(* Driver, main.py:250-341                                                 *)
(***************************************************************************)
\* mutant: the check forgets COMMERCIAL_API_KEY
ConfigCompleteForgetsKey(cfg) == (RequiredVars \ {"COMMERCIAL_API_KEY"}) \subseteq cfg

\* main.py:254, all([...])
ConfigComplete(cfg) == RequiredVars \subseteq cfg

\* the candidate the for loop of main.py:287 stands on
Current == newly_found_tokens[idx]

\* mutant: the set is written after every candidate and the batch is left
AfterCandidateSavesEach(i, found) == "save"

\* where the loop goes after the candidate at position i: the next candidate,
\* or the save of main.py:337
AfterCandidate(i, found) == IF i < Len(found) THEN "enrich" ELSE "save"

\* mutant: the identifier is never added
MarkProcessedForgets(processed, mint) == processed

\* main.py:311 and main.py:331, processed_tokens.add(mint_address)
MarkProcessed(processed, mint) == processed \cup {mint}

\* mutant: a failed post marks the token as processed
MarkOnFailedPost(processed, mint) == processed \cup {mint}

\* mutant: a failed post empties the set
FailedPostClearsSet(processed, mint) == {}

\* main.py:332-334, a failed post leaves the set alone
LeaveUnprocessed(processed, mint) == processed

\* mutant: the `continue` is missing, the rejected token goes on to the lookups
AfterRejectFallsThrough(i, found) == "balance"

\* main.py:310-312, what follows a rejection (`continue`)
AfterReject(i, found) == AfterCandidate(i, found)

Init ==
    /\ pc = "init"
    /\ config \in SUBSET RequiredVars
    /\ processed_tokens = {}
    /\ file = NoFile
    /\ metadata_semaphore = NoneNum
    /\ all_tokens = <<>>
    /\ newly_found_tokens = <<>>
    /\ idx = 0
    /\ enriched_metadata = NoMetadata
    /\ telegram_link = NotFound
    /\ twitter_link = NotFound
    /\ creator_balance_sol = NoneNum
    /\ creator_tx_count = NoneNum
    /\ formatted_message = NoMessage
    /\ resolved = {}
    /\ failed = {}
    /\ prev_failed = {}
    /\ prev_all_posted = FALSE
    /\ had_cycle = FALSE
    /\ feed_unchanged = FALSE
    /\ pubs_in_cycle = 0
    /\ handled = ""
    /\ decision = "none"
    /\ calls = {}
    /\ enrich_outcome = "none"
    /\ crash_site = "none"
    /\ did_io = FALSE
    /\ fetch_outcome = "none"
    /\ saves_in_cycle = 0
    /\ in_flight = 0
    /\ probe = NoProbe
    /\ dropped_ever = {}

\* the state in which one component is called alone
ContractInit ==
    /\ pc = "contract"
    /\ config \in {RequiredVars, RequiredVars \ {"TELEGRAM_BOT_TOKEN"}}
    /\ processed_tokens \in SUBSET Mints
    /\ file \in StoredFiles
    /\ metadata_semaphore = NoneNum
    /\ all_tokens = <<>>
    /\ newly_found_tokens = <<>>
    /\ idx = 0
    /\ enriched_metadata = NoMetadata
    /\ telegram_link = NotFound
    /\ twitter_link = NotFound
    /\ creator_balance_sol = NoneNum
    /\ creator_tx_count = NoneNum
    /\ formatted_message = NoMessage
    /\ resolved = {}
    /\ failed = {}
    /\ prev_failed = {}
    /\ prev_all_posted = FALSE
    /\ had_cycle = FALSE
    /\ feed_unchanged = FALSE
    /\ pubs_in_cycle = 0
    /\ handled = ""
    /\ decision = "none"
    /\ calls = {}
    /\ enrich_outcome = "none"
    /\ crash_site = "none"
    /\ did_io = FALSE
    /\ fetch_outcome = "none"
    /\ saves_in_cycle = 0
    /\ in_flight = 0
    /\ probe = NoProbe
    /\ dropped_ever = {}

\* main.py:254-256: a required variable is missing, main_loop returns
MissingConfig ==
    /\ pc = "init"
    /\ ~ConfigComplete(config)
    /\ pc' = "exited"
    /\ UNCHANGED <<config, processed_tokens, file, metadata_semaphore,
                   all_tokens, newly_found_tokens, idx, enriched_metadata,
                   telegram_link, twitter_link, creator_balance_sol,
                   creator_tx_count, formatted_message, resolved, failed,
                   prev_failed, prev_all_posted, had_cycle, feed_unchanged,
                   pubs_in_cycle, handled, decision, calls, enrich_outcome,
                   crash_site, did_io, fetch_outcome, saves_in_cycle, in_flight,
                   probe, dropped_ever>>

\* main.py:258-269: load the Dedup Set, create the semaphore, enter the loop;
\* an exception of the load is caught nowhere and ends main_loop
Startup ==
    /\ pc = "init"
    /\ ConfigComplete(config)
    /\ LET r == load_processed_tokens(file) IN
       IF r.raised
       THEN /\ pc' = "crashed"
            /\ crash_site' = "load"
            /\ UNCHANGED <<processed_tokens, metadata_semaphore>>
       ELSE /\ processed_tokens' = r.value
            /\ metadata_semaphore' = CONCURRENT_METADATA_FETCHES
            /\ pc' = "fetch"
            /\ UNCHANGED crash_site
    /\ UNCHANGED <<config, file, all_tokens, newly_found_tokens, idx,
                   enriched_metadata, telegram_link, twitter_link,
                   creator_balance_sol, creator_tx_count, formatted_message,
                   resolved, failed, prev_failed, prev_all_posted, had_cycle,
                   feed_unchanged, pubs_in_cycle, handled, decision, calls,
                   enrich_outcome, did_io, fetch_outcome, saves_in_cycle,
                   in_flight, probe, dropped_ever>>

\* main.py:272-285: fetch the feed, keep the valid tokens, pick the new ones.
\* An exception of the fetcher, or of the iteration over a body that is no
\* list of objects, is caught nowhere and ends main_loop.
Fetch ==
    /\ pc = "fetch"
    /\ \E outcome \in FetchOutcomes : \E body \in Feeds :
          LET r == fetch_new_pump_fun_tokens(outcome, body) IN
          /\ outcome # "ok" => body = <<>>
          /\ IF r.raised \/ ~r.is_list
             THEN /\ pc' = "crashed"
                  /\ crash_site' = IF r.raised THEN "fetch" ELSE "dedup"
                  /\ UNCHANGED <<all_tokens, newly_found_tokens, idx, failed,
                                 prev_failed, prev_all_posted, feed_unchanged,
                                 pubs_in_cycle>>
             ELSE /\ all_tokens' = r.tokens
                  /\ newly_found_tokens' = NewlyFound(r.tokens, processed_tokens)
                  /\ idx' = 1
                  /\ pc' = AfterCandidate(0, newly_found_tokens')
                  /\ prev_failed' = failed
                  /\ prev_all_posted' = (had_cycle /\ failed = {})
                  /\ failed' = {}
                  /\ feed_unchanged' = (had_cycle /\ r.tokens = all_tokens)
                  /\ pubs_in_cycle' = 0
                  /\ UNCHANGED crash_site
          /\ fetch_outcome' = outcome
    /\ did_io' = TRUE
    /\ saves_in_cycle' = 0
    /\ handled' = ""
    /\ decision' = "none"
    /\ calls' = {}
    /\ enrich_outcome' = "none"
    /\ enriched_metadata' = NoMetadata
    /\ UNCHANGED <<config, processed_tokens, file, metadata_semaphore,
                   telegram_link, twitter_link, creator_balance_sol,
                   creator_tx_count, formatted_message, resolved, had_cycle,
                   in_flight, probe, dropped_ever>>

\* main.py:288-296 and 98: take the next candidate, enter the semaphore
EnrichAcquire ==
    /\ pc = "enrich"
    /\ metadata_semaphore > 0
    /\ metadata_semaphore' = Acquire(metadata_semaphore)
    /\ pc' = "enrich_call"
    /\ handled' = Current.mint
    /\ decision' = "none"
    /\ calls' = {"enrich"}
    /\ enrich_outcome' = "none"
    /\ enriched_metadata' = NoMetadata
    /\ prev_failed' = {}
    /\ fetch_outcome' = "none"
    /\ in_flight' = in_flight + 1
    /\ UNCHANGED <<config, processed_tokens, file, all_tokens,
                   newly_found_tokens, idx, telegram_link, twitter_link,
                   creator_balance_sol, creator_tx_count, formatted_message,
                   resolved, failed, prev_all_posted, had_cycle, feed_unchanged,
                   pubs_in_cycle, crash_site, did_io, saves_in_cycle, probe,
                   dropped_ever>>

\* main.py:99-167 and 298-312: the API answers, the semaphore is left, the
\* links are taken and rewritten, the filter decides
EnrichReturn ==
    /\ pc = "enrich_call"
    /\ \E resp \in EnrichResponses :
          LET em == get_token_metadata_enriched(config, resp)
              tg == TelegramLinkOf(em).v
              tw == TwitterLinkOf(em).v
          IN
          /\ metadata_semaphore' = Release(metadata_semaphore, resp)
          /\ in_flight' = in_flight - 1
          /\ enriched_metadata' = em
          /\ enrich_outcome' = IF resp.kind = "ok" THEN "answered" ELSE "failed"
          /\ dropped_ever' =
                IF resp.kind = "ok" THEN dropped_ever ELSE dropped_ever \cup {Current.mint}
          /\ IF LinksRaise(em)
             THEN /\ pc' = "crashed"
                  /\ crash_site' = "filter"
                  /\ UNCHANGED <<processed_tokens, idx, telegram_link, twitter_link,
                                 resolved, decision>>
             ELSE IF ~Accepts(tg, tw)
             THEN /\ processed_tokens' = MarkProcessed(processed_tokens, Current.mint)
                  /\ resolved' = resolved \cup {Current.mint}
                  /\ decision' = "rejected"
                  /\ pc' = AfterReject(idx, newly_found_tokens)
                  /\ idx' = IF pc' = "enrich" THEN idx + 1 ELSE idx
                  /\ UNCHANGED <<telegram_link, twitter_link, crash_site>>
             ELSE /\ telegram_link' = tg
                  /\ twitter_link' = tw
                  /\ decision' = "accepted"
                  /\ pc' = "balance"
                  /\ UNCHANGED <<processed_tokens, idx, resolved, crash_site>>
    /\ UNCHANGED <<config, file, all_tokens, newly_found_tokens,
                   creator_balance_sol, creator_tx_count, formatted_message,
                   failed, prev_failed, prev_all_posted, had_cycle,
                   feed_unchanged, pubs_in_cycle, handled, calls, did_io,
                   fetch_outcome, saves_in_cycle, probe>>

\* main.py:314-322, first await: the balance of the creator.  An exception
\* of get_sol_balance is caught at main.py:321 and skips the second call.
GetBalance ==
    /\ pc = "balance"
    /\ \E outcome \in BalanceOutcomes : \E lamports \in LamportValues :
          LET r == get_sol_balance(outcome, lamports) IN
          /\ creator_balance_sol' = r.value
          /\ creator_tx_count' = NoneNum
          /\ pc' = IF r.raised THEN "format" ELSE "txcount"
    /\ calls' = calls \cup {"balance"}
    /\ enrich_outcome' = "none"
    /\ enriched_metadata' = NoMetadata
    /\ UNCHANGED <<config, processed_tokens, file, metadata_semaphore,
                   all_tokens, newly_found_tokens, idx, telegram_link,
                   twitter_link, formatted_message, resolved, failed,
                   prev_failed, prev_all_posted, had_cycle, feed_unchanged,
                   pubs_in_cycle, handled, decision, crash_site, did_io,
                   fetch_outcome, saves_in_cycle, in_flight, probe, dropped_ever>>

\* main.py:320-322, second await: the recent signatures of the creator
GetTxCount ==
    /\ pc = "txcount"
    /\ \E outcome \in TxCountOutcomes : \E n \in SignatureCounts :
          LET r == get_transaction_count(outcome, n) IN
          /\ creator_tx_count' = r.value
          /\ pc' = "format"
    /\ calls' = calls \cup {"txcount"}
    /\ UNCHANGED <<config, processed_tokens, file, metadata_semaphore,
                   all_tokens, newly_found_tokens, idx, enriched_metadata,
                   telegram_link, twitter_link, creator_balance_sol,
                   formatted_message, resolved, failed, prev_failed,
                   prev_all_posted, had_cycle, feed_unchanged, pubs_in_cycle,
                   handled, decision, enrich_outcome, crash_site, did_io,
                   fetch_outcome, saves_in_cycle, in_flight, probe, dropped_ever>>

\* main.py:326: build the message; an exception of the formatter is caught
\* nowhere and ends main_loop
Format ==
    /\ pc = "format"
    /\ LET m == format_token_message(Current, creator_balance_sol, creator_tx_count,
                                     telegram_link, twitter_link) IN
       /\ formatted_message' = m
       /\ pc' = IF m.raised THEN "crashed" ELSE "publish"
       /\ crash_site' = IF m.raised THEN "format" ELSE crash_site
    /\ calls' = calls \cup {"format"}
    /\ UNCHANGED <<config, processed_tokens, file, metadata_semaphore,
                   all_tokens, newly_found_tokens, idx, enriched_metadata,
                   telegram_link, twitter_link, creator_balance_sol,
                   creator_tx_count, resolved, failed, prev_failed,
                   prev_all_posted, had_cycle, feed_unchanged, pubs_in_cycle,
                   handled, decision, enrich_outcome, did_io, fetch_outcome,
                   saves_in_cycle, in_flight, probe, dropped_ever>>

\* main.py:327-334: post the message, mark the token on success only
Publish ==
    /\ pc = "publish"
    /\ \E outcome \in SendOutcomes :
          LET r == send_telegram_message(config, outcome) IN
          /\ IF r.value
             THEN /\ processed_tokens' = MarkProcessed(processed_tokens, Current.mint)
                  /\ resolved' = resolved \cup {Current.mint}
                  /\ pubs_in_cycle' = pubs_in_cycle + 1
                  /\ UNCHANGED failed
             ELSE /\ processed_tokens' = LeaveUnprocessed(processed_tokens, Current.mint)
                  /\ failed' = failed \cup {Current.mint}
                  /\ UNCHANGED <<resolved, pubs_in_cycle>>
          /\ pc' = IF r.raised THEN "crashed" ELSE AfterCandidate(idx, newly_found_tokens)
          /\ crash_site' = IF r.raised THEN "publish" ELSE crash_site
    /\ idx' = IF pc' = "enrich" THEN idx + 1 ELSE idx
    /\ calls' = calls \cup {"publish"}
    \* the locals of the finished iteration are dead: main.py:296-299 and
    \* 314-315 assign them again before they are read
    /\ telegram_link' = NotFound
    /\ twitter_link' = NotFound
    /\ creator_balance_sol' = NoneNum
    /\ creator_tx_count' = NoneNum
    /\ formatted_message' = NoMessage
    /\ UNCHANGED <<config, file, metadata_semaphore, all_tokens,
                   newly_found_tokens, enriched_metadata, prev_failed,
                   prev_all_posted, had_cycle, feed_unchanged, handled, decision,
                   enrich_outcome, did_io, fetch_outcome, saves_in_cycle,
                   in_flight, probe, dropped_ever>>

\* main.py:336-339: write the Dedup Set once the batch is handled
Save ==
    /\ pc = "save"
    /\ \E outcome \in SaveOutcomes : \E items \in ListsOf(processed_tokens) :
          file' = save_processed_tokens(file, items, outcome)
    /\ pc' = "sleep"
    /\ did_io' = TRUE
    /\ saves_in_cycle' = saves_in_cycle + 1
    /\ fetch_outcome' = "none"
    /\ enrich_outcome' = "none"
    /\ enriched_metadata' = NoMetadata
    /\ prev_failed' = {}
    /\ prev_all_posted' = FALSE
    /\ handled' = ""
    /\ decision' = "none"
    /\ calls' = {}
    /\ feed_unchanged' = FALSE
    /\ pubs_in_cycle' = 0
    /\ UNCHANGED <<config, processed_tokens, metadata_semaphore, all_tokens,
                   newly_found_tokens, idx, telegram_link, twitter_link,
                   creator_balance_sol, creator_tx_count, formatted_message,
                   resolved, failed, had_cycle, crash_site, in_flight, probe,
                   dropped_ever>>

\* main.py:340-341: sleep, then the next cycle
Sleep ==
    /\ pc = "sleep"
    /\ had_cycle' = TRUE
    /\ pc' = "fetch"
    /\ UNCHANGED <<config, processed_tokens, file, metadata_semaphore,
                   all_tokens, newly_found_tokens, idx, enriched_metadata,
                   telegram_link, twitter_link, creator_balance_sol,
                   creator_tx_count, formatted_message, resolved, failed,
                   prev_failed, prev_all_posted, feed_unchanged, pubs_in_cycle,
                   handled, decision, calls, enrich_outcome, crash_site, did_io,
                   fetch_outcome, saves_in_cycle, in_flight, probe, dropped_ever>>

\* The process is killed at any point (or has ended) and is started again:
\* module state is as after import, the file and the outside world remain.
Restart ==
    /\ pc # "init"
    /\ pc' = "init"
    /\ processed_tokens' = {}
    /\ metadata_semaphore' = NoneNum
    /\ all_tokens' = <<>>
    /\ newly_found_tokens' = <<>>
    /\ idx' = 0
    /\ enriched_metadata' = NoMetadata
    /\ telegram_link' = NotFound
    /\ twitter_link' = NotFound
    /\ creator_balance_sol' = NoneNum
    /\ creator_tx_count' = NoneNum
    /\ formatted_message' = NoMessage
    /\ had_cycle' = FALSE
    /\ prev_all_posted' = FALSE
    /\ failed' = {}
    /\ prev_failed' = {}
    /\ feed_unchanged' = FALSE
    /\ pubs_in_cycle' = 0
    /\ handled' = ""
    /\ decision' = "none"
    /\ calls' = {}
    /\ enrich_outcome' = "none"
    /\ crash_site' = "none"
    /\ fetch_outcome' = "none"
    /\ saves_in_cycle' = 0
    /\ in_flight' = 0
    /\ UNCHANGED <<config, file, resolved, did_io, probe, dropped_ever>>

\* main.py:51-57: save_processed_tokens(processed_tokens)
StoreSave ==
    /\ pc = "contract"
    /\ \E outcome \in SaveOutcomes : \E items \in ListsOf(processed_tokens) :
          /\ file' = save_processed_tokens(file, items, outcome)
          /\ probe' = Probe("save", outcome, FALSE, FALSE, NoneNum, {})
    /\ pc' = "saved"
    /\ UNCHANGED <<config, processed_tokens, metadata_semaphore, all_tokens,
                   newly_found_tokens, idx, enriched_metadata, telegram_link,
                   twitter_link, creator_balance_sol, creator_tx_count,
                   formatted_message, resolved, failed, prev_failed,
                   prev_all_posted, had_cycle, feed_unchanged, pubs_in_cycle,
                   handled, decision, calls, enrich_outcome, crash_site, did_io,
                   fetch_outcome, saves_in_cycle, in_flight, dropped_ever>>

\* main.py:40-49: load_processed_tokens(), on the file as found or right
\* after a save
StoreLoad ==
    /\ pc \in {"contract", "saved"}
    /\ LET r == load_processed_tokens(file) IN
       probe' = Probe(IF pc = "saved" THEN "save_load" ELSE "load", probe.outcome,
                      r.raised, FALSE, NoneNum, r.value)
    /\ pc' = "done"
    /\ UNCHANGED <<config, processed_tokens, file, metadata_semaphore,
                   all_tokens, newly_found_tokens, idx, enriched_metadata,
                   telegram_link, twitter_link, creator_balance_sol,
                   creator_tx_count, formatted_message, resolved, failed,
                   prev_failed, prev_all_posted, had_cycle, feed_unchanged,
                   pubs_in_cycle, handled, decision, calls, enrich_outcome,
                   crash_site, did_io, fetch_outcome, saves_in_cycle, in_flight,
                   dropped_ever>>

\* telegram_bot.py:9-43: send_telegram_message(token, chat, message)
CallPublish ==
    /\ pc = "contract"
    /\ \E outcome \in SendOutcomes :
          LET r == send_telegram_message(config, outcome) IN
          probe' = Probe("publish", outcome, r.raised, r.value, NoneNum, {})
    /\ pc' = "done"
    /\ UNCHANGED <<config, processed_tokens, file, metadata_semaphore,
                   all_tokens, newly_found_tokens, idx, enriched_metadata,
                   telegram_link, twitter_link, creator_balance_sol,
                   creator_tx_count, formatted_message, resolved, failed,
                   prev_failed, prev_all_posted, had_cycle, feed_unchanged,
                   pubs_in_cycle, handled, decision, calls, enrich_outcome,
                   crash_site, did_io, fetch_outcome, saves_in_cycle, in_flight,
                   dropped_ever>>

\* solana_rpc.py:9-47: get_sol_balance(creator, rpc_url)
CallBalance ==
    /\ pc = "contract"
    /\ \E outcome \in BalanceOutcomes : \E lamports \in LamportValues :
          LET r == get_sol_balance(outcome, lamports) IN
          probe' = Probe("balance", outcome, r.raised, FALSE, r.value, {})
    /\ pc' = "done"
    /\ UNCHANGED <<config, processed_tokens, file, metadata_semaphore,
                   all_tokens, newly_found_tokens, idx, enriched_metadata,
                   telegram_link, twitter_link, creator_balance_sol,
                   creator_tx_count, formatted_message, resolved, failed,
                   prev_failed, prev_all_posted, had_cycle, feed_unchanged,
                   pubs_in_cycle, handled, decision, calls, enrich_outcome,
                   crash_site, did_io, fetch_outcome, saves_in_cycle, in_flight,
                   dropped_ever>>

\* solana_rpc.py:49-96: get_transaction_count(creator, rpc_url)
CallTxCount ==
    /\ pc = "contract"
    /\ \E outcome \in TxCountOutcomes : \E n \in SignatureCounts :
          LET r == get_transaction_count(outcome, n) IN
          probe' = Probe("txcount", outcome, r.raised, FALSE, r.value, {})
    /\ pc' = "done"
    /\ UNCHANGED <<config, processed_tokens, file, metadata_semaphore,
                   all_tokens, newly_found_tokens, idx, enriched_metadata,
                   telegram_link, twitter_link, creator_balance_sol,
                   creator_tx_count, formatted_message, resolved, failed,
                   prev_failed, prev_all_posted, had_cycle, feed_unchanged,
                   pubs_in_cycle, handled, decision, calls, enrich_outcome,
                   crash_site, did_io, fetch_outcome, saves_in_cycle, in_flight,
                   dropped_ever>>

\* main.py:169-233: format_token_message(token, balance, count, tg, tw)
CallFormat ==
    /\ pc = "contract"
    /\ \E balance \in FormatBalances : \E count \in FormatCounts :
          LET m == format_token_message(Tok("M1", "C1"), balance, count, TgGood, TwGood) IN
          /\ creator_balance_sol' = balance
          /\ creator_tx_count' = count
          /\ formatted_message' = m
          /\ probe' = Probe("format", "none", m.raised, FALSE, NoneNum, {})
    /\ pc' = "done"
    /\ UNCHANGED <<config, processed_tokens, file, metadata_semaphore,
                   all_tokens, newly_found_tokens, idx, enriched_metadata,
                   telegram_link, twitter_link, resolved, failed, prev_failed,
                   prev_all_posted, had_cycle, feed_unchanged, pubs_in_cycle,
                   handled, decision, calls, enrich_outcome, crash_site, did_io,
                   fetch_outcome, saves_in_cycle, in_flight, dropped_ever>>

Next ==
    \/ MissingConfig
    \/ Startup
    \/ Fetch
    \/ EnrichAcquire
    \/ EnrichReturn
    \/ GetBalance
    \/ GetTxCount
    \/ Format
    \/ Publish
    \/ Save
    \/ Sleep
    \/ Restart

Spec == Init /\ [][Next]_vars

ContractNext ==
    \/ StoreSave
    \/ StoreLoad
    \/ CallPublish
    \/ CallBalance
    \/ CallTxCount
    \/ CallFormat

\* each component on its own, on every input of the bounded sets
ContractSpec == ContractInit /\ [][ContractNext]_vars

(***************************************************************************)
(* Properties                                                              *)
(***************************************************************************)
\* identifiers the durable file holds
FileIds == IF file.state = "list" THEN Range(file.items) ELSE {}

\* the current cycle has handled its batch (main.py:337 is next or done)
EndOfCycle == pc \in {"save", "sleep"}

\* C1: a candidate that passed the filter and whose publish call returned
\* False is not in the Dedup Set at the end of that cycle, and when the next
\* cycle's feed still holds it, it is among that cycle's new candidates.
C1_FailedPublishRetried ==
    /\ EndOfCycle => failed \cap processed_tokens = {}
    /\ \A m \in prev_failed :
          m \in MintsOf(ValidTokens(all_tokens)) => m \in MintsOf(newly_found_tokens)

\* C2: when the filter rejects a new candidate, its identifier is in the
\* Dedup Set at once, the loop goes on to the next candidate or to the save,
\* and no chain-info, format or publish call is made for that candidate.
C2_RejectedMarkedAndSkipped ==
    decision = "rejected" =>
       /\ handled \in processed_tokens
       /\ pc \in {"enrich", "save"}
       /\ calls \cap {"balance", "txcount", "format", "publish"} = {}

\* C2 witness: a candidate was just rejected and the loop stands on the next one
C2_Witness ==
    /\ decision = "rejected"
    /\ handled \in processed_tokens
    /\ calls = {"enrich"}
    /\ pc = "enrich"
    /\ idx = 2

\* C3: the Dedup Set holds only identifiers that were published or rejected,
\* and the publisher is never called for an identifier that is in the Dedup
\* Set, whatever the feed holds.
C3_DedupSetNeverReoffered ==
    /\ processed_tokens \subseteq resolved
    /\ pc = "publish" => Current.mint \notin processed_tokens

\* C4 as stated: in a cycle whose feed equals the previous cycle's feed
\* nothing is published.
C4_UnchangedFeedPublishesNothing ==
    feed_unchanged => pubs_in_cycle = 0

\* C4 amended: in a cycle whose feed equals the feed of the previous cycle,
\* in which no publish call returned False, nothing is published: every
\* identifier of a token of the feed that has a mint and a creator is in the
\* Dedup Set, so there is no new candidate.
C4_UnchangedFeedAfterCleanCycle ==
    (feed_unchanged /\ prev_all_posted) =>
       /\ pubs_in_cycle = 0
       /\ newly_found_tokens = <<>>
       /\ MintsOf(ValidTokens(all_tokens)) \subseteq processed_tokens

\* C4 witness: the second of two cycles over a feed with a valid token ends
\* without a publication
C4_Witness ==
    /\ feed_unchanged
    /\ prev_all_posted
    /\ MintsOf(ValidTokens(all_tokens)) # {}
    /\ pubs_in_cycle = 0
    /\ pc = "save"

\* C5: once the formatter has been called for an accepted candidate whose
\* balance or activity count is absent, the driver is calling the publisher
\* or has called it.
C5_ChainInfoAbsenceNeverBlocks ==
    ("format" \in calls /\ (creator_balance_sol = NoneNum \/ creator_tx_count = NoneNum))
       => (pc = "publish" \/ "publish" \in calls)

\* C6: after startup no exception leaves a component and ends the loop,
\* whatever the external calls and the file operations answer.
C6_NoExceptionEscapes ==
    pc # "crashed"

\* C7: with a required configuration value missing the driver never enters
\* the loop, makes no outbound call and never writes the file; with all of
\* them present it does not stop at startup.
C7_FailFast ==
    /\ config # RequiredVars =>
          /\ pc \in {"init", "exited"}
          /\ ~did_io
          /\ file = NoFile
          /\ metadata_semaphore = NoneNum
    /\ config = RequiredVars => pc # "exited"

\* C7 witness: one value is missing and main_loop has returned
C7_Witness ==
    /\ Cardinality(config) = Cardinality(RequiredVars) - 1
    /\ pc = "exited"
    /\ ~did_io

\* C8: an enrich call holds exactly one permit while its exchange is under
\* way, and whenever no enrich call is under way every permit is free.
C8_GateNeverLeaks ==
    /\ pc = "enrich_call" => metadata_semaphore = CONCURRENT_METADATA_FETCHES - 1
    /\ (pc \notin {"init", "exited", "enrich_call"}) =>
          metadata_semaphore = CONCURRENT_METADATA_FETCHES

\* C8 witness: an exchange has just failed and every permit is free again
C8_Witness ==
    /\ enrich_outcome = "failed"
    /\ pc \in {"enrich", "save"}
    /\ metadata_semaphore = CONCURRENT_METADATA_FETCHES

\* C9: every identifier in the durable file, and every identifier a started
\* process holds, was published or rejected; so a valid token of the feed
\* that was neither is among the new candidates, also after a restart.
C9_NothingDroppedByCrash ==
    /\ FileIds \subseteq resolved
    /\ processed_tokens \subseteq resolved
    /\ \A i \in 1..Len(all_tokens) :
          (IsValidToken(all_tokens[i]) /\ all_tokens[i].mint \notin resolved)
             => all_tokens[i].mint \in MintsOf(newly_found_tokens)

\* C9 witness: a process started on a file a former process wrote is, in its
\* first cycle, handling a candidate that was never published nor rejected
C9_Witness ==
    /\ FileIds # {}
    /\ ~had_cycle
    /\ processed_tokens = FileIds
    /\ pc = "enrich"
    /\ Current.mint \notin resolved

\* a link of the enrichment result is present
LinkPresent(x) == x.t = "str" /\ x.v # <<>>

\* the reference predicate: both links present and each, as normalized, a
\* syntactically valid URL
RefAccepts(em) ==
    /\ em.present
    /\ LinkPresent(em.telegram_url)
    /\ is_valid_url(em.telegram_url.v)
    /\ LinkPresent(em.twitter_url)
    /\ is_valid_url(NormalizeTwitter(em.twitter_url.v))

C11_FetcherYieldsEmptyOnFailure ==
    (fetch_outcome \in FetchOutcomes \ {"ok"}) =>
       /\ pc = "save"
       /\ all_tokens = <<>>
       /\ newly_found_tokens = <<>>

\* C12: loading the Dedup Store returns the empty set and does not raise
\* whenever the file is absent or holds anything else than a JSON array of
\* string identifiers.
C12_LoadOfCorruptStoreIsEmpty ==
    (probe.fn = "load" /\ file.state # "list") =>
       /\ ~probe.raised
       /\ probe.ids = {}

C14_PublishTrueOnlyOnAcknowledgment ==
    probe.fn = "publish" =>
       /\ ~probe.raised
       /\ probe.truth => probe.outcome = "ok_true"
       /\ (probe.outcome = "ok_true" /\ config = RequiredVars) => probe.truth

C14_Witness ==
    /\ probe.fn = "publish"
    /\ probe.outcome = "http_status"
    /\ config = RequiredVars
    /\ ~probe.truth
    /\ ~probe.raised

\* C15: neither chain-info call raises; when the exchange ends in a timeout,
\* a transport error, an error status or a malformed or unexpected body, the
\* call returns None.
C15_ChainInfoCallsReturnAbsent ==
    probe.fn \in {"balance", "txcount"} =>
       /\ ~probe.raised
       /\ probe.outcome # "ok" => probe.num = NoneNum

\* C16: format returns a message for every balance, absent or not, and the
\* message carries the empty-wallet tag exactly when the balance is present
\* and below 1 SOL.
C16_EmptyWalletTag ==
    probe.fn = "format" =>
       /\ ~probe.raised
       /\ formatted_message.built
       /\ formatted_message.dev_wallet_empty_tag
             <=> (creator_balance_sol # NoneNum /\ creator_balance_sol < LAMPORTS_PER_SOL)

\* the driver is handling the batch of the current cycle
HandlingBatch ==
    pc \in {"enrich", "enrich_call", "balance", "txcount", "format", "publish", "save"}

\* C17: in a cycle the Dedup Set is written once, after the last new
\* candidate has been handled and before the sleep: while candidates are
\* being handled no write of this cycle has happened, and when the driver
\* sleeps exactly one has, with the loop past its last candidate.
C17_SavedOncePerCycle ==
    /\ HandlingBatch => saves_in_cycle = 0
    /\ pc = "sleep" =>
          /\ saves_in_cycle = 1
          /\ idx >= Len(newly_found_tokens)

C17_Witness ==
    /\ pc = "sleep"
    /\ saves_in_cycle = 1
    /\ Len(newly_found_tokens) = 2
    /\ idx = 2
    /\ Cardinality(FileIds) = 2

\* C18: a publish call that returned False does not stop the cycle: the
\* candidates after it are still handled and the cycle reaches the save, so
\* a cycle in which a publish failed is never left by an exception.
C18_PublishFailureDoesNotStopCycle ==
    failed # {} => pc # "crashed"

\* C19: the number of enrichment requests in flight never exceeds the
\* capacity of the semaphore, and the capacity (free permits plus permits
\* held) stays what it was set to at startup.
C19_InFlightWithinCapacity ==
    /\ in_flight <= CONCURRENT_METADATA_FETCHES
    /\ metadata_semaphore = NoneNum => in_flight = 0
    /\ metadata_semaphore # NoneNum =>
          /\ metadata_semaphore >= 0
          /\ metadata_semaphore + in_flight = CONCURRENT_METADATA_FETCHES

C19_Witness ==
    /\ pc = "enrich_call"
    /\ in_flight = 1
    /\ idx = 2
    /\ metadata_semaphore = CONCURRENT_METADATA_FETCHES - 1

\* C20: the end-of-cycle save never ends the loop and never changes the
\* in-memory Dedup Set; after it the file holds its prior content or the
\* new content, and the next cycle offers no identifier of the in-memory set.
C20_FailedSaveIsHarmless ==
    [][ /\ (pc = "save" /\ pc' # "init") =>
            /\ pc' = "sleep"
            /\ processed_tokens' = processed_tokens
            /\ \/ file' = file
               \/ file'.state = "list" /\ Range(file'.items) = processed_tokens
        /\ (pc = "fetch" /\ pc' \in {"enrich", "save"}) =>
            /\ processed_tokens' = processed_tokens
            /\ MintsOf(newly_found_tokens') \cap processed_tokens = {}
      ]_vars

\* the step is the fetch of a cycle that goes on to its batch
FetchStep == pc = "fetch" /\ pc' \in {"enrich", "save"}

\* what always follows an enrichment that ended without a result: the
\* candidate is rejected, nothing else is called for it, it is in the set
DroppedOnFailure ==
    enrich_outcome = "failed" =>
       /\ decision = "rejected"
       /\ calls = {"enrich"}
       /\ handled \in processed_tokens
       /\ handled \in dropped_ever

\* C21 as stated: a candidate whose enrichment call failed is rejected and
\* added to the Dedup Set in that cycle, and no later cycle, of whatever
\* process, has it among its new candidates.
C21_DroppedNeverReoffered ==
    /\ []DroppedOnFailure
    /\ [][FetchStep => MintsOf(newly_found_tokens') \cap dropped_ever = {}]_vars

\* C21: a candidate whose enrichment call failed is rejected and added to
\* the Dedup Set in that cycle; it stays in the set as long as the process
\* runs, and no later cycle of a process whose set holds it has it among its
\* new candidates.
C21_DroppedStaysDroppedInProcess ==
    /\ []DroppedOnFailure
    /\ [][pc' # "init" => (dropped_ever \cap processed_tokens) \subseteq processed_tokens']_vars
    /\ [][FetchStep =>
             MintsOf(newly_found_tokens') \cap (dropped_ever \cap processed_tokens) = {}]_vars

C21_Witness ==
    /\ had_cycle
    /\ fetch_outcome = "ok"
    /\ file = NoFile
    /\ "M1" \in dropped_ever \cap processed_tokens
    /\ "M1" \in MintsOf(ValidTokens(all_tokens))
    /\ "M1" \notin MintsOf(newly_found_tokens)

\* C22: while a process runs, no step of the driver removes an identifier
\* from the in-memory Dedup Set, and a step adds only identifiers of the
\* cycle's new candidates.
C22_DedupSetGrowsMonotonically ==
    [][(pc # "init" /\ pc' # "init") =>
          /\ processed_tokens \subseteq processed_tokens'
          /\ (processed_tokens' \ processed_tokens) \subseteq MintsOf(newly_found_tokens)
      ]_vars

C22_Witness ==
    /\ had_cycle
    /\ file = NoFile
    /\ pc = "sleep"
    /\ processed_tokens = Mints
    /\ Len(newly_found_tokens) = 1

====
